---- MODULE Spec2Model ----
(***************************************************************************)
(* Model of the local-document retrieval pipeline of                       *)
(* src/employees/r&d/document_research_agent.py: the chunker (chunk_text), *)
(* the vector store (LocalVectorStore), the build path                     *)
(* (ensure_vectorstore_build) and the retrieval entry point                *)
(* (search_local_docs).                                                    *)
(*                                                                         *)
(* Two state machines share the module:                                    *)
(*   SpecChunk / SpecChunkFair : one call of chunk_text, one loop          *)
(*                               iteration per step;                       *)
(*   Spec                      : a process that serves search_local_docs   *)
(*                               calls one after the other against a file  *)
(*                               system the environment may change between *)
(*                               calls, and that may stop at any point.    *)
(*                                                                         *)
(* Abstractions.  A text is modelled by its token count n; the token       *)
(* encoder maps it to the stream <<0, 1, ..., n-1>> (each token tagged     *)
(* with its 0-based offset), and decoding a slice of that stream gives the *)
(* span of text it covers, [first, ntok].  An embedding is a vector of two *)
(* small integers instead of 1536 floats.                                  *)
(***************************************************************************)
EXTENDS Integers, Sequences, FiniteSets, TLC

\* ------------------------------------------------------------- bounds
\* Longest token stream, and largest window, tried on chunk_text alone.
MaxTokens == 7
MaxWindow == 4
\* Most files the environment puts under ./my-docs.
MaxFiles == 2
\* Largest top_k a caller passes.
MaxK == 2
\* Most vectors an index is let grow to (a store loaded with vectors but no
\* metadata is built upon again at every call).
MaxEntries == 3
\* Most entries of a store that search is tried on alone.
MaxStore == 3
\* Most files of a directory that load is tried on alone.
MaxListing == 3
\* Largest chunk_overlap tried where it may reach or pass chunk_size, and the
\* length up to which the chunk list of such a call is followed.
MaxOverlap == 5
MaxChunks == 4

\* ---------------------------------------------------------- variables
VARIABLES
    \* chunk_text, one call
    tokens,         \* enc.encode(text)
    chunk_size,     \* parameter
    chunk_overlap,  \* parameter
    i,              \* loop variable
    chunks,         \* list being built
    cpc,            \* "off" | "loop" | "done"
    \* the file system and the process environment
    indexPath,      \* whether a file local_docs.index exists
    faissFile,      \* local_docs.index.faiss : [exists, vecs]
    metaFile,       \* local_docs.index.meta.json : [exists, metas]
    corrupt,        \* which of the two ("faiss", "meta") cannot be deserialized
    myDocs,         \* ./my-docs : [exists, files]
    apiKey,         \* whether OPENAI_API_KEY is set
    \* the process, inside search_local_docs
    pc,             \* position in search_local_docs / ensure_vectorstore_build
    index,          \* store.index, the vectors in insertion order
    doc_meta,       \* store.doc_meta
    pending,        \* chunks the embedding loop has still to visit
    all_embeddings, \* local of ensure_vectorstore_build
    all_metas,      \* local of ensure_vectorstore_build
    result,         \* what the last call returned
    \* history of the current call
    startEntries,   \* entries (vectors and metadata alike) that a completed save
                    \* had left on disk when the call began, else 0
    loaderRan,      \* DocumentLoader.load was run in this call
    chunkEmbeds,    \* embedding requests made for chunks in this call
    chunkFails,     \* how many of them raised
    persistIntact,  \* the backing files are those a completed save wrote
    diskAtCall,     \* the local_docs.index* files as they were when the call began
    loaded,         \* how many vectors and metadata entries __post_init__ gave the store
    outcomes,       \* per chunk-embedding request, in order: TRUE answered, FALSE raised
    queryLog,       \* what the call did after it got the store
    persists,       \* how many times the call has begun store.save()
    run             \* this process run so far: a store was made, a store had entries

chunkVars == <<tokens, chunk_size, chunk_overlap, i, chunks, cpc>>
diskVars == <<indexPath, faissFile, metaFile, corrupt>>
envVars == <<myDocs, apiKey>>
procVars == <<pc, index, doc_meta, pending, all_embeddings, all_metas, result>>
histVars == <<startEntries, loaderRan, chunkEmbeds, chunkFails, persistIntact,
              diskAtCall, loaded, outcomes, queryLog, persists, run>>
vars == <<chunkVars, diskVars, envVars, procVars, histVars>>

Min(a, b) == IF a < b THEN a ELSE b

\* ------------------------------------------------------ token encoder
\* enc.encode: a text of n tokens becomes the stream of its token offsets.
Encode(text) == [j \in 1..text |-> j - 1]

\* enc.decode: the text a slice covers, as the span [first, ntok].
Decode(chunk) ==
    IF chunk = <<>> THEN [first |-> 0, ntok |-> 0]
    ELSE [first |-> chunk[1], ntok |-> Len(chunk)]

\* --------------------------------------------------------- chunk_text
\* Mutant of Slice: the slice stops one token early, tokens[i : i + size - 1].
SliceOneShort(toks, from, size) == SubSeq(toks, from + 1, Min(from + size - 1, Len(toks)))

\* Where a slice bound k falls in a list of n items: a negative bound counts
\* from the end, and every bound is clipped to 0..n.
SliceBound(k, n) == IF k < 0 THEN (IF n + k < 0 THEN 0 ELSE n + k) ELSE Min(k, n)

\* tokens[i : i + size]
Slice(toks, from, size) ==
    SubSeq(toks, SliceBound(from, Len(toks)) + 1, SliceBound(from + size, Len(toks)))

\* Mutants of Advance: i += chunk_size; i += chunk_size - chunk_overlap + 1;
\* i += chunk_overlap.
AdvanceNoOverlap(from, size, overlap) == from + size
AdvanceOneMore(from, size, overlap) == from + (size - overlap) + 1
AdvanceByOverlap(from, size, overlap) == from + overlap

\* Mutant of Advance: the stride is kept at 1 or more.
AdvanceAtLeastOne(from, size, overlap) ==
    from + (IF size - overlap < 1 THEN 1 ELSE size - overlap)

\* i += chunk_size - chunk_overlap
Advance(from, size, overlap) == from + (size - overlap)

\* Mutant of LoopGuard: while i <= len(tokens).
LoopGuardInclusive(toks, from) == from <= Len(toks)

\* while i < len(tokens)
LoopGuard(toks, from) == from < Len(toks)

\* The body of the while loop: the chunk list after one more iteration.
LoopBody(toks, from, acc, size) == Append(acc, Decode(Slice(toks, from, size)))

RECURSIVE ChunkLoop(_, _, _, _, _)
ChunkLoop(toks, from, acc, size, overlap) ==
    IF LoopGuard(toks, from)
    THEN ChunkLoop(toks, Advance(from, size, overlap),
                   LoopBody(toks, from, acc, size), size, overlap)
    ELSE acc

\* chunk_text(text, chunk_size, chunk_overlap), as a function of its arguments.
ChunkText(text, size, overlap) == ChunkLoop(Encode(text), 0, <<>>, size, overlap)

\* ------------------------------------------- the process, when not in a call
\* No store, no locals: the state of the process between two calls.
ProcReset ==
    /\ index = <<>>
    /\ doc_meta = <<>>
    /\ pending = <<>>
    /\ all_embeddings = <<>>
    /\ all_metas = <<>>

NoResult == [kind |-> "none", hits |-> <<>>]

\* Nothing loaded, nothing asked of the provider or the store.
NoLoad == [vecs |-> 0, metas |-> 0]
NoQuery == [entries |-> 0, embed |-> "none", searched |-> FALSE]

\* A process run in which no call has yet made a store.
NewRun == [constructed |-> FALSE, nonEmpty |-> FALSE]

\* No call under way in a new process run: nothing recorded.
HistReset ==
    /\ startEntries = 0
    /\ loaderRan = FALSE
    /\ chunkEmbeds = 0
    /\ chunkFails = 0
    /\ diskAtCall = <<>>
    /\ loaded = NoLoad
    /\ outcomes = <<>>
    /\ queryLog = NoQuery
    /\ persists = 0
    /\ run = NewRun

\* A fresh working directory, no call made yet.
InitProcess ==
    /\ indexPath = FALSE
    /\ faissFile = [exists |-> FALSE, vecs |-> <<>>]
    /\ metaFile = [exists |-> FALSE, metas |-> <<>>]
    /\ corrupt = {}
    /\ pc = "idle"
    /\ ProcReset
    /\ result = NoResult
    /\ HistReset
    /\ persistIntact = FALSE

\* ./my-docs is missing or empty, the key is set or not.
InitRetrieval ==
    /\ InitProcess
    /\ myDocs \in {[exists |-> FALSE, files |-> <<>>], [exists |-> TRUE, files |-> <<>>]}
    /\ apiKey \in BOOLEAN

\* The retrieval side at rest, while chunk_text is looked at alone.
RetrievalOff ==
    /\ InitProcess
    /\ myDocs = [exists |-> FALSE, files |-> <<>>]
    /\ apiKey = FALSE

\* ------------------------------------------ chunk_text as a state machine
ChunkOff ==
    /\ tokens = <<>>
    /\ chunk_size = 1
    /\ chunk_overlap = 0
    /\ i = 0
    /\ chunks = <<>>
    /\ cpc = "off"

\* A call chunk_text(text, chunk_size, chunk_overlap) with 0 <= overlap < size,
\* at the top of its while loop.
InitChunk ==
    /\ \E n \in 0..MaxTokens : tokens = Encode(n)
    /\ chunk_size \in 1..MaxWindow
    /\ chunk_overlap \in 0..(chunk_size - 1)
    /\ i = 0
    /\ chunks = <<>>
    /\ cpc = "loop"
    /\ RetrievalOff

\* One iteration of the while loop.
ChunkIterate ==
    /\ cpc = "loop"
    /\ LoopGuard(tokens, i)
    /\ chunks' = LoopBody(tokens, i, chunks, chunk_size)
    /\ i' = Advance(i, chunk_size, chunk_overlap)
    /\ UNCHANGED <<tokens, chunk_size, chunk_overlap, cpc>>
    /\ UNCHANGED <<diskVars, envVars, procVars, histVars>>

\* The loop condition fails: return chunks.
ChunkReturn ==
    /\ cpc = "loop"
    /\ ~LoopGuard(tokens, i)
    /\ cpc' = "done"
    /\ UNCHANGED <<tokens, chunk_size, chunk_overlap, i, chunks>>
    /\ UNCHANGED <<diskVars, envVars, procVars, histVars>>

NextChunk == ChunkIterate \/ ChunkReturn

\* A call chunk_text(text, chunk_size, chunk_overlap) with any overlap from 0
\* to MaxOverlap, smaller than the size or not.
InitChunkAny ==
    /\ \E n \in 0..MaxTokens : tokens = Encode(n)
    /\ chunk_size \in 1..MaxWindow
    /\ chunk_overlap \in 0..MaxOverlap
    /\ i = 0
    /\ chunks = <<>>
    /\ cpc = "loop"
    /\ RetrievalOff

\* One iteration of the while loop, followed while the list has fewer than
\* MaxChunks chunks.
ChunkIterateCapped == Len(chunks) < MaxChunks /\ ChunkIterate

NextChunkAny == ChunkIterateCapped \/ ChunkReturn

SpecChunkAny == InitChunkAny /\ [][NextChunkAny]_vars

SpecChunk == InitChunk /\ [][NextChunk]_vars

\* The interpreter runs the loop to its end: a step that can be taken is taken.
SpecChunkFair == SpecChunk /\ WF_vars(NextChunk)

\* ------------------------------------------------------ the corpus
\* chunk_text's defaults, which ensure_vectorstore_build uses.
DefaultChunkSize == 600
DefaultChunkOverlap == 100

\* The files the environment may put under ./my-docs.  ntok is the token
\* count of the text the file yields (0: an empty file); ok is whether
\* reading it succeeds (for a .pdf: PyMuPDF is there and extracts it).
CorpusFiles ==
    { [url |-> "a.txt", ext |-> ".txt", ok |-> TRUE,  ntok |-> 601],
      [url |-> "b.pdf", ext |-> ".pdf", ok |-> TRUE,  ntok |-> 1],
      [url |-> "c.csv", ext |-> ".csv", ok |-> FALSE, ntok |-> 1],
      [url |-> "d.png", ext |-> ".png", ok |-> TRUE,  ntok |-> 1],
      [url |-> "e.md",  ext |-> ".md",  ok |-> TRUE,  ntok |-> 0] }

\* glob lists the files in one fixed order, here that of CorpusFiles' ranks.
Rank(f) == CASE f.url = "a.txt" -> 1 [] f.url = "b.pdf" -> 2
             [] f.url = "c.csv" -> 3 [] f.url = "d.png" -> 4 [] OTHER -> 5

\* files with f put at its place in that order.
RECURSIVE Insert(_, _)
Insert(files, f) ==
    IF files = <<>> THEN <<f>>
    ELSE IF Rank(f) < Rank(Head(files)) THEN <<f>> \o files
    ELSE <<Head(files)>> \o Insert(Tail(files), f)

TextExts == {".txt", ".md", ".csv"}

\* Mutant of Loads: the loader takes a file whatever its extension.
LoadsAnyExtension(f) == f.ok /\ f.ntok > 0

\* Mutant of Loads: a file whose read raised gives a document all the same.
LoadsFailedReads(f) ==
    /\ f.ext \in TextExts \/ f.ext = ".pdf"
    /\ f.ntok > 0

\* Whether load() appends a document for file f.
Loads(f) ==
    /\ f.ext \in TextExts \/ f.ext = ".pdf"
    /\ f.ok
    /\ f.ntok > 0

RECURSIVE LoadFiles(_)
LoadFiles(files) ==
    IF files = <<>> THEN <<>>
    ELSE (IF Loads(Head(files))
          THEN <<[raw_content |-> Head(files).ntok, url |-> Head(files).url]>>
          ELSE <<>>) \o LoadFiles(Tail(files))

\* DocumentLoader.load
Load(dir) == IF ~dir.exists THEN <<>> ELSE LoadFiles(dir.files)

\* The (chunk, source) pairs the nested loops of the build visit, in order.
RECURSIVE Tagged(_, _)
Tagged(chs, source) ==
    IF chs = <<>> THEN <<>>
    ELSE <<[ch |-> Head(chs), source |-> source]>> \o Tagged(Tail(chs), source)

\* Mutant of ChunksOfDocs: the outer loop stops after the first document.
ChunksOfFirstDoc(docs) ==
    IF docs = <<>> THEN <<>>
    ELSE Tagged(ChunkText(Head(docs).raw_content, DefaultChunkSize, DefaultChunkOverlap),
                Head(docs).url)

RECURSIVE ChunksOfDocs(_)
ChunksOfDocs(docs) ==
    IF docs = <<>> THEN <<>>
    ELSE Tagged(ChunkText(Head(docs).raw_content, DefaultChunkSize, DefaultChunkOverlap),
                Head(docs).url)
         \o ChunksOfDocs(Tail(docs))

\* ---------------------------------------------- the embedding provider
\* client.embeddings.create, when it answers: the provider is a function of
\* the text it is sent.  The vector of a chunk's text is taken from the span
\* the text covers, so that chunks of one document get different vectors.
Embed(text) == <<text.first \div DefaultChunkOverlap + 1, text.ntok % 3>>

\* The vectors it may answer a query string with.
QueryVectors == {<<1, 0>>, <<0, 1>>}

\* ------------------------------------------------- LocalVectorStore.search
\* Inner product, the metric of IndexFlatIP.
Dot(v, q) == v[1] * q[1] + v[2] * q[2]

\* Mutant of Before: lowest score first.
BeforeAscending(ix, q, a, b) ==
    \/ Dot(ix[a], q) < Dot(ix[b], q)
    \/ Dot(ix[a], q) = Dot(ix[b], q) /\ a < b

\* Vector a ranks before vector b: higher score, the earlier one on a tie.
Before(ix, q, a, b) ==
    \/ Dot(ix[a], q) > Dot(ix[b], q)
    \/ Dot(ix[a], q) = Dot(ix[b], q) /\ a < b

\* The positions of ids, best first.
RECURSIVE Ranking(_, _, _)
Ranking(ix, q, ids) ==
    IF ids = {} THEN <<>>
    ELSE LET best == CHOOSE a \in ids : \A b \in ids \ {a} : Before(ix, q, a, b)
         IN  <<best>> \o Ranking(ix, q, ids \ {best})

\* self.index.search(vec, k): k (distance, id) pairs, ids 0-based, -1 where
\* the index holds fewer than k vectors.
FaissSearch(ix, q, k) ==
    LET rank == Ranking(ix, q, 1..Len(ix))
    IN  [r \in 1..k |->
            IF r <= Len(ix)
            THEN [dist |-> Dot(ix[rank[r]], q), id |-> rank[r] - 1]
            ELSE [dist |-> -1, id |-> -1]]

\* Mutant of Kept: only the test i < 0 is made.
KeptNonNegative(hits, meta) == SelectSeq(hits, LAMBDA h : ~(h.id < 0))

\* The hits the loop of search() keeps: not (i < 0 or i >= len(doc_meta)).
Kept(hits, meta) == SelectSeq(hits, LAMBDA h : ~(h.id < 0 \/ h.id >= Len(meta)))

\* What stands for the IndexError of a read outside the list.
OutOfRange == [text_chunk |-> [first |-> -1, ntok |-> -1], source |-> "IndexError"]

\* self.doc_meta[i]: item i counted from 0, a negative i counted from the end,
\* IndexError outside -len..len-1.
MetaRead(meta, id) ==
    IF 0 <= id /\ id < Len(meta) THEN meta[id + 1]
    ELSE IF id < 0 /\ -Len(meta) <= id THEN meta[Len(meta) + id + 1]
    ELSE OutOfRange

\* LocalVectorStore.search
Search(ix, meta, q, k) ==
    LET kept == Kept(FaissSearch(ix, q, k), meta)
    IN  [r \in 1..Len(kept) |->
            [score  |-> kept[r].dist,
             text   |-> MetaRead(meta, kept[r].id).text_chunk,
             source |-> MetaRead(meta, kept[r].id).source]]

\* -------------------------------------------------------- the environment
\* All of these happen between two calls.

\* A file appears under ./my-docs (the directory with it, if it was missing).
EnvAddFile ==
    /\ pc = "idle"
    /\ Len(myDocs.files) < MaxFiles
    /\ \E f \in CorpusFiles :
        /\ \A n \in 1..Len(myDocs.files) : myDocs.files[n] # f
        /\ myDocs' = [exists |-> TRUE, files |-> Insert(myDocs.files, f)]
    /\ UNCHANGED <<chunkVars, diskVars, apiKey, procVars, histVars>>

\* OPENAI_API_KEY is set or unset.
EnvToggleApiKey ==
    /\ pc = "idle"
    /\ apiKey' = ~apiKey
    /\ UNCHANGED <<chunkVars, diskVars, myDocs, procVars, histVars>>

\* Somebody creates a file named local_docs.index: no code of the program does.
EnvCreateIndexPath ==
    /\ pc = "idle"
    /\ ~indexPath
    /\ indexPath' = TRUE
    /\ UNCHANGED <<chunkVars, faissFile, metaFile, corrupt, envVars, procVars, histVars>>

\* rm local_docs.index*
EnvDeleteBackingFiles ==
    /\ pc = "idle"
    /\ indexPath \/ faissFile.exists \/ metaFile.exists
    /\ indexPath' = FALSE
    /\ faissFile' = [exists |-> FALSE, vecs |-> <<>>]
    /\ metaFile' = [exists |-> FALSE, metas |-> <<>>]
    /\ corrupt' = {}
    /\ persistIntact' = FALSE
    /\ UNCHANGED <<chunkVars, envVars, procVars>>
    /\ UNCHANGED <<startEntries, loaderRan, chunkEmbeds, chunkFails>>
    /\ UNCHANGED <<diskAtCall, loaded, outcomes, queryLog, persists, run>>

\* One of the two backing files is damaged: it is there, but read_index or
\* json.load raises on it.
EnvCorruptFile ==
    /\ pc = "idle"
    /\ \E f \in {"faiss", "meta"} :
        /\ f \notin corrupt
        /\ IF f = "faiss" THEN faissFile.exists ELSE metaFile.exists
        /\ corrupt' = corrupt \cup {f}
    /\ persistIntact' = FALSE
    /\ UNCHANGED <<chunkVars, indexPath, faissFile, metaFile, envVars, procVars>>
    /\ UNCHANGED <<startEntries, loaderRan, chunkEmbeds, chunkFails>>
    /\ UNCHANGED <<diskAtCall, loaded, outcomes, queryLog, persists, run>>

\* ------------------------------------------------------------ the process
\* The call returns value v: the store and the locals are dropped.
Return(v) ==
    /\ pc' = "returned"
    /\ result' = v
    /\ index' = <<>>
    /\ doc_meta' = <<>>
    /\ pending' = <<>>
    /\ all_embeddings' = <<>>
    /\ all_metas' = <<>>

\* The value of the handler: "Error in RAG search: {e}", e the exception's text.
Error(e) == [kind |-> "error", hits |-> <<>>, e |-> e]

\* Mutant of Raise: no handler, the exception leaves search_local_docs.
RaiseEscapes(e) ==
    /\ pc' = "raised"
    /\ UNCHANGED <<index, doc_meta, pending, all_embeddings, all_metas, result>>

\* An exception is raised inside the try of search_local_docs:
\* except Exception as e: return Result(value=f"Error in RAG search: {e}")
Raise(e) == Return(Error(e))

\* search_local_docs(query, top_k) is called.  (Nothing reads query and top_k
\* before the store is there: they are drawn where they are first used.)
Call ==
    /\ pc = "idle"
    /\ pc' = "construct"
    /\ startEntries' = IF persistIntact /\ Len(faissFile.vecs) = Len(metaFile.metas)
                     THEN Len(metaFile.metas) ELSE 0
    /\ diskAtCall' = diskVars
    /\ UNCHANGED <<index, doc_meta, pending, all_embeddings, all_metas, result>>
    /\ UNCHANGED <<loaderRan, chunkEmbeds, chunkFails, loaded, outcomes, queryLog, persists, run>>
    /\ UNCHANGED <<chunkVars, diskVars, envVars, persistIntact>>

\* The caller has the returned value; the process waits for the next call.
Deliver ==
    /\ pc = "returned"
    /\ pc' = "idle"
    /\ result' = NoResult
    /\ startEntries' = 0
    /\ loaderRan' = FALSE
    /\ chunkEmbeds' = 0
    /\ chunkFails' = 0
    /\ diskAtCall' = <<>>
    /\ loaded' = NoLoad
    /\ outcomes' = <<>>
    /\ queryLog' = NoQuery
    /\ persists' = 0
    /\ run' = IF result.kind = "stopped" THEN NewRun ELSE run
    /\ UNCHANGED <<index, doc_meta, pending, all_embeddings, all_metas>>
    /\ UNCHANGED <<chunkVars, diskVars, envVars, persistIntact>>

\* LocalVectorStore(dimension, index_path): __post_init__, with _load_index
\* when a file index_path exists.  read_index and open / json.load raise on a
\* missing or damaged file; nothing compares the two files.
PostInit ==
    /\ pc = "construct"
    /\ IF indexPath
       THEN IF ~faissFile.exists \/ "faiss" \in corrupt
            THEN Raise("read_index") /\ UNCHANGED <<loaded, run>>
            ELSE IF ~metaFile.exists \/ "meta" \in corrupt
            THEN Raise("meta.json") /\ UNCHANGED <<loaded, run>>
            ELSE /\ index' = faissFile.vecs
                 /\ doc_meta' = metaFile.metas
                 /\ loaded' = [vecs |-> Len(faissFile.vecs), metas |-> Len(metaFile.metas)]
                 /\ run' = [run EXCEPT !.constructed = TRUE]
                 /\ pc' = "build"
                 /\ UNCHANGED <<pending, all_embeddings, all_metas, result>>
       ELSE /\ index' = <<>>
            /\ doc_meta' = <<>>
            /\ loaded' = NoLoad
            /\ run' = [run EXCEPT !.constructed = TRUE]
            /\ pc' = "build"
            /\ UNCHANGED <<pending, all_embeddings, all_metas, result>>
    /\ UNCHANGED <<chunkVars, diskVars, envVars>>
    /\ UNCHANGED <<startEntries, loaderRan, chunkEmbeds, chunkFails, persistIntact>>
    /\ UNCHANGED <<diskAtCall, outcomes, queryLog, persists>>

\* Mutant of HasKey: the test of client.api_key is left out.
HasKeyAlways == TRUE

\* client = openai.OpenAI(api_key=os.getenv("OPENAI_API_KEY", "")), and the
\* test "if not client.api_key" that follows it in both functions.
HasKey == apiKey

\* ensure_vectorstore_build from the test of the store to the head of the
\* embedding loop: reuse a non-empty store, or load, test the key and chunk.
BuildOrReuse ==
    /\ pc = "build"
    /\ IF Len(doc_meta) > 0 /\ Len(index) > 0
       THEN /\ pc' = "query"
            /\ UNCHANGED <<pending, loaderRan>>
       ELSE /\ loaderRan' = TRUE
            /\ IF Load(myDocs) = <<>> \/ ~HasKey
               THEN /\ pc' = "query"
                    /\ UNCHANGED pending
               ELSE /\ pc' = "embed"
                    /\ pending' = ChunksOfDocs(Load(myDocs))
    /\ all_embeddings' = <<>>
    /\ all_metas' = <<>>
    /\ UNCHANGED <<index, doc_meta, result>>
    /\ UNCHANGED <<chunkVars, diskVars, envVars>>
    /\ UNCHANGED <<startEntries, chunkEmbeds, chunkFails, persistIntact>>
    /\ UNCHANGED <<diskAtCall, loaded, outcomes, queryLog, persists, run>>

\* Mutant of EmbedChunkOk: the index file is rewritten after every answered
\* request, with what has been collected so far.
EmbedChunkOkCheckpoints ==
    /\ pc = "embed"
    /\ pending # <<>>
    /\ all_embeddings' = Append(all_embeddings, Embed(Head(pending).ch))
    /\ all_metas' = Append(all_metas, [text_chunk |-> Head(pending).ch,
                                       source |-> Head(pending).source])
    /\ pending' = Tail(pending)
    /\ chunkEmbeds' = chunkEmbeds + 1
    /\ outcomes' = Append(outcomes, TRUE)
    /\ faissFile' = [exists |-> TRUE, vecs |-> index \o all_embeddings']
    /\ persistIntact' = FALSE
    /\ UNCHANGED <<pc, index, doc_meta, result>>
    /\ UNCHANGED <<chunkVars, indexPath, metaFile, corrupt, envVars>>
    /\ UNCHANGED <<startEntries, loaderRan, chunkFails>>
    /\ UNCHANGED <<diskAtCall, loaded, queryLog, persists, run>>

\* One pass of the inner loop of the build: the provider answers with a
\* vector, which is collected with the chunk's metadata ...
EmbedChunkOk ==
    /\ pc = "embed"
    /\ pending # <<>>
    /\ all_embeddings' = Append(all_embeddings, Embed(Head(pending).ch))
    /\ all_metas' = Append(all_metas, [text_chunk |-> Head(pending).ch,
                                       source |-> Head(pending).source])
    /\ pending' = Tail(pending)
    /\ chunkEmbeds' = chunkEmbeds + 1
    /\ outcomes' = Append(outcomes, TRUE)
    /\ UNCHANGED <<pc, index, doc_meta, result>>
    /\ UNCHANGED <<chunkVars, diskVars, envVars>>
    /\ UNCHANGED <<startEntries, loaderRan, chunkFails, persistIntact>>
    /\ UNCHANGED <<diskAtCall, loaded, queryLog, persists, run>>

\* ... or raises, which is printed and the chunk dropped.
EmbedChunkFails ==
    /\ pc = "embed"
    /\ pending # <<>>
    /\ pending' = Tail(pending)
    /\ chunkEmbeds' = chunkEmbeds + 1
    /\ chunkFails' = chunkFails + 1
    /\ outcomes' = Append(outcomes, FALSE)
    /\ UNCHANGED <<pc, index, doc_meta, all_embeddings, all_metas, result>>
    /\ UNCHANGED <<chunkVars, diskVars, envVars>>
    /\ UNCHANGED <<startEntries, loaderRan, persistIntact>>
    /\ UNCHANGED <<diskAtCall, loaded, queryLog, persists, run>>

\* store.add_embeddings(all_embeddings, all_metas), after the loops.
AddEmbeddings ==
    /\ pc = "embed"
    /\ pending = <<>>
    /\ Len(index) + Len(all_embeddings) <= MaxEntries
    /\ IF all_embeddings = <<>>
       THEN UNCHANGED <<index, doc_meta>>
       ELSE /\ index' = index \o all_embeddings
            /\ doc_meta' = doc_meta \o all_metas
    /\ pc' = "save"
    /\ UNCHANGED <<pending, all_embeddings, all_metas, result>>
    /\ UNCHANGED <<chunkVars, diskVars, envVars, histVars>>

\* store.save(), first write: faiss.write_index.
SaveIndex ==
    /\ pc = "save"
    /\ faissFile' = [exists |-> TRUE, vecs |-> index]
    /\ corrupt' = corrupt \ {"faiss"}
    /\ persistIntact' = FALSE
    /\ pc' = "save_meta"
    /\ UNCHANGED <<index, doc_meta, pending, all_embeddings, all_metas, result>>
    /\ UNCHANGED <<chunkVars, indexPath, metaFile, envVars>>
    /\ UNCHANGED <<startEntries, loaderRan, chunkEmbeds, chunkFails>>
    /\ persists' = persists + 1
    /\ UNCHANGED <<diskAtCall, loaded, outcomes, queryLog, run>>

\* store.save(), second write: json.dump; ensure_vectorstore_build returns.
SaveMeta ==
    /\ pc = "save_meta"
    /\ metaFile' = [exists |-> TRUE, metas |-> doc_meta]
    /\ corrupt' = corrupt \ {"meta"}
    /\ persistIntact' = TRUE
    /\ pc' = "query"
    /\ UNCHANGED <<index, doc_meta, pending, all_embeddings, all_metas, result>>
    /\ UNCHANGED <<chunkVars, indexPath, faissFile, envVars>>
    /\ UNCHANGED <<startEntries, loaderRan, chunkEmbeds, chunkFails>>
    /\ UNCHANGED <<diskAtCall, loaded, outcomes, queryLog, persists, run>>

\* search_local_docs after ensure_vectorstore_build has returned the store.
Query ==
    /\ pc = "query"
    /\ IF Len(index) = 0
       THEN /\ Return([kind |-> "no documents", hits |-> <<>>])
            /\ queryLog' = NoQuery
       ELSE IF ~HasKey
       THEN /\ Return([kind |-> "no key", hits |-> <<>>])
            /\ queryLog' = [entries |-> Len(index), embed |-> "none", searched |-> FALSE]
       ELSE \/ /\ Raise("embeddings.create")
               /\ queryLog' = [entries |-> Len(index), embed |-> "failed",
                               searched |-> FALSE]
            \/ /\ \E q \in QueryVectors, top_k \in 1..MaxK :
                    LET results == Search(index, doc_meta, q, top_k)
                    IN  IF results = <<>>
                        THEN Return([kind |-> "no relevant docs", hits |-> <<>>])
                        ELSE Return([kind |-> "ranked", hits |-> results])
               /\ queryLog' = [entries |-> Len(index), embed |-> "ok", searched |-> TRUE]
    /\ UNCHANGED <<chunkVars, diskVars, envVars>>
    /\ UNCHANGED <<startEntries, loaderRan, chunkEmbeds, chunkFails, persistIntact>>
    /\ run' = [run EXCEPT !.nonEmpty = @ \/ Len(index) > 0]
    /\ UNCHANGED <<diskAtCall, loaded, outcomes, persists>>

\* The process stops inside a call; what it has written stays on disk, and
\* Deliver then stands for its restart.
Crash ==
    /\ pc \notin {"idle", "returned"}
    /\ Return([kind |-> "stopped", hits |-> <<>>, at |-> pc])
    /\ UNCHANGED <<chunkVars, diskVars, envVars, histVars>>

Init == ChunkOff /\ InitRetrieval

Next ==
    \/ EnvAddFile
    \/ EnvToggleApiKey
    \/ EnvCreateIndexPath
    \/ EnvDeleteBackingFiles
    \/ EnvCorruptFile
    \/ Call
    \/ Deliver
    \/ PostInit
    \/ BuildOrReuse
    \/ EmbedChunkOk
    \/ EmbedChunkFails
    \/ AddEmbeddings
    \/ SaveIndex
    \/ SaveMeta
    \/ Query
    \/ Crash

Spec == Init /\ [][Next]_vars

\* ------------------------------------- LocalVectorStore.search on its own
\* The vectors of the stores and queries search is tried on.
SearchVectors == {<<1, 0>>, <<0, 1>>, <<1, 1>>, <<-1, 0>>}

\* The metadata of the j-th chunk added: every entry has a text of its own.
MetaAt(j) == [text_chunk |-> [first |-> (j - 1) * 500, ntok |-> 600], source |-> "a.txt"]

\* Sequences over S of length n.
SeqsOfLen(S, n) == [1..n -> S]

\* A store in memory, as loaded from whatever files there were: any vectors,
\* and a metadata list of any length, equal to the index's or not.
InitSearch ==
    /\ ChunkOff
    /\ indexPath = FALSE
    /\ corrupt = {}
    /\ myDocs = [exists |-> FALSE, files |-> <<>>]
    /\ apiKey = TRUE
    /\ pc = "search"
    /\ \E n \in 0..MaxStore : index \in SeqsOfLen(SearchVectors, n)
    /\ \E m \in 0..MaxStore : doc_meta = [j \in 1..m |-> MetaAt(j)]
    /\ \E saved \in BOOLEAN :
        /\ faissFile = [exists |-> saved, vecs |-> IF saved THEN index ELSE <<>>]
        /\ metaFile = [exists |-> saved, metas |-> IF saved THEN doc_meta ELSE <<>>]
    /\ pending = <<>>
    /\ all_embeddings = <<>>
    /\ all_metas = <<>>
    /\ result = NoResult
    /\ HistReset
    /\ persistIntact = FALSE

\* Mutant of SearchApply: search takes the best-ranked vector out of the index.
SearchApplyConsumes ==
    /\ pc \in {"search", "searched"}
    /\ \E q \in SearchVectors, k \in 1..MaxK :
         /\ result' = [kind |-> "searched", hits |-> Search(index, doc_meta, q, k),
                       q |-> q, k |-> k]
         /\ index' = IF index = <<>> THEN index
                     ELSE LET top == Ranking(index, q, 1..Len(index))[1]
                          IN  [j \in 1..(Len(index) - 1) |->
                                  IF j < top THEN index[j] ELSE index[j + 1]]
    /\ pc' = "searched"
    /\ UNCHANGED <<doc_meta, pending, all_embeddings, all_metas>>
    /\ UNCHANGED <<chunkVars, diskVars, envVars, histVars>>

\* DocumentLoader.load as a function of the directory: ./my-docs missing, or
\* holding up to MaxListing of the corpus files, in whatever order glob gives.
Listings ==
    UNION { { l \in SeqsOfLen(CorpusFiles, n) :
                \A a, b \in 1..n : a # b => l[a] # l[b] } : n \in 0..MaxListing }

InitLoad ==
    /\ ChunkOff
    /\ indexPath = FALSE
    /\ faissFile = [exists |-> FALSE, vecs |-> <<>>]
    /\ metaFile = [exists |-> FALSE, metas |-> <<>>]
    /\ corrupt = {}
    /\ \/ myDocs = [exists |-> FALSE, files |-> <<>>]
       \/ \E l \in Listings : myDocs = [exists |-> TRUE, files |-> l]
    /\ apiKey = TRUE
    /\ pc = "load"
    /\ ProcReset
    /\ result = NoResult
    /\ HistReset
    /\ persistIntact = FALSE

\* DocumentLoader("./my-docs").load() is called and returns docs.
LoadApply ==
    /\ pc = "load"
    /\ result' = [kind |-> "loaded", hits |-> Load(myDocs)]
    /\ pc' = "loaded"
    /\ UNCHANGED <<index, doc_meta, pending, all_embeddings, all_metas>>
    /\ UNCHANGED <<chunkVars, diskVars, envVars, histVars>>

NextLoad == LoadApply

SpecLoad == InitLoad /\ [][NextLoad]_vars

\* store.search(embedding, k) is called, for the first time or again.
SearchApply ==
    /\ pc \in {"search", "searched"}
    /\ \E q \in SearchVectors, k \in 1..MaxK :
         result' = [kind |-> "searched", hits |-> Search(index, doc_meta, q, k),
                    q |-> q, k |-> k]
    /\ pc' = "searched"
    /\ UNCHANGED <<index, doc_meta, pending, all_embeddings, all_metas>>
    /\ UNCHANGED <<chunkVars, diskVars, envVars, histVars>>

NextSearch == SearchApply

SpecSearch == InitSearch /\ [][NextSearch]_vars

\* -------------------------------------------------- search: the claims
\* The position in the store of the entry a hit was built from.
PosOf(h) == CHOOSE j \in 1..Len(doc_meta) : doc_meta[j].text_chunk = h.text

\* C11: on a store of n entries search returns min(k, n) results, built from
\* distinct entries with their inner-product scores, no entry left out scoring
\* higher than one returned, in order of non-increasing score; none for n = 0,
\* all n for k > n.
C11_SearchTopK ==
    (pc = "searched" /\ Len(index) = Len(doc_meta)) =>
        LET hits == result.hits
            n == Len(index)
            got == {PosOf(hits[r]) : r \in 1..Len(hits)}
        IN  /\ Len(hits) = Min(result.k, n)
            /\ \A r \in 1..Len(hits) :
                   /\ \E j \in 1..n : doc_meta[j].text_chunk = hits[r].text
                   /\ hits[r].source = doc_meta[PosOf(hits[r])].source
                   /\ hits[r].score = Dot(index[PosOf(hits[r])], result.q)
            /\ Cardinality(got) = Len(hits)
            /\ \A r \in 1..(Len(hits) - 1) : hits[r].score >= hits[r + 1].score
            /\ \A j \in (1..n) \ got, r \in 1..Len(hits) :
                   Dot(index[j], result.q) <= hits[r].score

C11_Witness ==
    /\ pc = "searched"
    /\ Len(index) = 3
    /\ Len(doc_meta) = 3
    /\ result.k = 2
    /\ Len(result.hits) = 2
    /\ result.hits[1].score > result.hits[2].score
    /\ PosOf(result.hits[1]) = 3

\* ----------------------------------------------- chunk_text: the claims
NTokens == Len(tokens)
Stride == chunk_size - chunk_overlap
CeilDiv(a, b) == (a + b - 1) \div b
\* The token offsets chunk c covers.
Range(c) == c.first .. (c.first + c.ntok - 1)
Last(s) == s[Len(s)]

\* C6: the j-th chunk (0-based) starts at offset j*(W-O), the first at 0, and
\* each chunk holds min(W, N - start) tokens.
C6_ChunkPositions ==
    \A j \in 1..Len(chunks) :
        /\ chunks[j].first = (j - 1) * Stride
        /\ chunks[j].ntok = Min(chunk_size, NTokens - chunks[j].first)

C6_Witness ==
    /\ cpc = "done"
    /\ chunk_overlap > 0
    /\ Len(chunks) >= 3
    /\ Last(chunks).ntok < chunk_size

\* C7: an N-token stream gives exactly ceil(N / (W-O)) chunks, none for N = 0,
\* and the final chunk holds N - (steps-1)*(W-O) tokens.
C7_ChunkCount ==
    cpc = "done" =>
        /\ Len(chunks) = CeilDiv(NTokens, Stride)
        /\ NTokens >= 1 =>
               Last(chunks).ntok = NTokens - (Len(chunks) - 1) * Stride

C7_Witness ==
    /\ cpc = "done"
    /\ NTokens % Stride # 0
    /\ chunk_overlap > 0
    /\ Len(chunks) >= 3

\* The chunks that hold the final token, offset N-1.
HoldFinal == {j \in 1..Len(chunks) : (NTokens - 1) \in Range(chunks[j])}

C9_Coverage ==
    cpc = "done" =>
        /\ \A t \in 0..(NTokens - 1) : \E j \in 1..Len(chunks) : t \in Range(chunks[j])
        /\ \A j \in 1..Len(chunks) : Range(chunks[j]) \subseteq 0..(NTokens - 1)
        /\ \A j \in 1..(Len(chunks) - 1) :
               Cardinality(Range(chunks[j]) \cap Range(chunks[j + 1]))
                   = Min(chunk_overlap, NTokens - chunks[j + 1].first)

C9_Witness ==
    /\ cpc = "done"
    /\ Len(chunks) >= 3
    /\ chunk_overlap >= 2
    /\ NTokens - Last(chunks).first < chunk_overlap

\* C10: the loop terminates, its start offset growing at every iteration.
C10_Terminates ==
    /\ <>(cpc = "done")
    /\ [][ChunkIterate => (i' > i /\ i < NTokens)]_vars

C10_Witness ==
    /\ cpc = "done"
    /\ Len(chunks) >= 2
    /\ i > NTokens

\* ------------------------------------------------ retrieval: the claims
\* The call has a store: __post_init__ is over and the call has not returned.
HasStore == pc \in {"build", "embed", "save", "save_meta", "query"}

\* The call is running or has just returned, and was not cut short.
InCall == pc # "idle" /\ result.kind # "stopped"

\* C1: a call that starts when a completed save has left a non-empty store on
\* disk, with the key set and no provider failure, makes no chunk-embedding
\* request and works on the store as persisted, with the same entry count.
C1_BuildIdempotent ==
    (InCall /\ startEntries > 0 /\ apiKey /\ chunkFails = 0) =>
        /\ chunkEmbeds = 0
        /\ HasStore => Len(index) = startEntries /\ Len(doc_meta) = startEntries
        /\ Len(faissFile.vecs) = startEntries /\ Len(metaFile.metas) = startEntries

\* C2: the store constructed over the files a completed save wrote holds the
\* saved entries in the saved order, and answers every search as the saved
\* store does.
C2_PersistLoadRoundTrip ==
    (pc = "build" /\ persistIntact) =>
        /\ index = faissFile.vecs
        /\ doc_meta = metaFile.metas
        /\ \A q \in QueryVectors, k \in 1..MaxK :
               Search(index, doc_meta, q, k) = Search(faissFile.vecs, metaFile.metas, q, k)

\* C3: a call that starts when a completed save has left a non-empty store on
\* disk runs neither the loader nor the chunker, whatever ./my-docs holds; a
\* call that starts with the backing files deleted runs the loader.
C3_ReusedUntilDeleted ==
    /\ (InCall /\ startEntries > 0) => (~loaderRan /\ pending = <<>>)
    /\ (pc \in {"embed", "save", "save_meta", "query"} /\ startEntries = 0
            /\ ~indexPath /\ ~persistIntact)
        => loaderRan

\* C4: the metadata list is as long as the index holds vectors, in every state
\* of a store: constructed or loaded, appended to, saved.
C4_MetaMatchesIndex == Len(doc_meta) = Len(index)

\* C5: whenever both backing files exist they hold the same number of entries,
\* also between the two writes of save and after a stop there.
C5_PersistAtomic ==
    (faissFile.exists /\ metaFile.exists) =>
        Len(faissFile.vecs) = Len(metaFile.metas)

\* ----------------------------------------- the retrieval call: the claims
\* The corpus files the loader can get text from.
ReadableUrls == {"a.txt", "b.pdf"}

\* ./my-docs is missing, or none of its files gives the loader a document.
YieldsNoDocuments ==
    ~myDocs.exists \/ \A j \in 1..Len(myDocs.files) : myDocs.files[j].url \notin ReadableUrls

\* None of the local_docs.index* files existed when the call began.
NoBackingAtCall ==
    /\ diskAtCall # <<>>
    /\ ~diskAtCall[1]
    /\ ~diskAtCall[2].exists
    /\ ~diskAtCall[3].exists

\* C12: a call that begins with no backing files and a corpus directory that
\* is missing or yields no documents asks the provider for no embedding, leaves
\* no backing file with entries, and returns the "no documents" message.
C12_AbsentOrEmptyCorpus ==
    (InCall /\ NoBackingAtCall /\ YieldsNoDocuments) =>
        /\ chunkEmbeds = 0
        /\ outcomes = <<>>
        /\ queryLog.embed = "none"
        /\ Len(faissFile.vecs) = 0
        /\ Len(metaFile.metas) = 0
        /\ pc = "returned" => result.kind = "no documents"

C12_Witness ==
    /\ pc = "returned"
    /\ result.kind = "no documents"
    /\ NoBackingAtCall
    /\ myDocs.exists
    /\ Len(myDocs.files) = 2
    /\ YieldsNoDocuments

\* The call has run the two loops of the build to their end.
Built == pc \in {"save", "save_meta"} \/ (pc = "query" /\ outcomes # <<>>)

\* c1..cm: the chunks of the documents of ./my-docs, in the order of the loops.
BuildChunks == ChunksOfDocs(Load(myDocs))

\* The chunks of chs whose embedding request was answered, in order.
RECURSIVE NonFailed(_, _)
NonFailed(chs, outs) ==
    IF chs = <<>> THEN <<>>
    ELSE (IF Head(outs) THEN <<Head(chs)>> ELSE <<>>) \o NonFailed(Tail(chs), Tail(outs))

\* The store holds exactly the chunks of chs, in order, each with its vector.
StoreIs(ix, meta, chs) ==
    /\ Len(ix) = Len(chs)
    /\ Len(meta) = Len(chs)
    /\ \A j \in 1..Len(chs) :
        /\ ix[j] = Embed(chs[j].ch)
        /\ meta[j] = [text_chunk |-> chs[j].ch, source |-> chs[j].source]

\* What a build leaves, given the chunks that did not fail: the store holds
\* them and, once save has returned, so do the backing files.
BuildLeaves ==
    /\ Len(outcomes) = Len(BuildChunks)
    /\ Len(index) = Len(BuildChunks) - chunkFails
    /\ StoreIs(index, doc_meta, NonFailed(BuildChunks, outcomes))
    /\ pc = "query" =>
           StoreIs(faissFile.vecs, metaFile.metas, NonFailed(BuildChunks, outcomes))

\* C13: after a build in which the provider failed on some of the chunks
\* c1..cm, every chunk has been tried, and the store and its backing files
\* hold exactly the chunks that did not fail, in their original order.
C13_PerChunkFailure == Built => BuildLeaves

\* The same for a build that began with what __post_init__ made without loading.
BuildFromNewStore == (Built /\ loaded = NoLoad) => BuildLeaves

\* The sum, over the files of ./my-docs the loader gets a document from, of
\* the number of chunks chunk_text makes of the document.
RECURSIVE SumOfChunkCounts(_)
SumOfChunkCounts(files) ==
    IF files = <<>> THEN 0
    ELSE (IF Head(files).url \in ReadableUrls
          THEN Len(ChunkText(Head(files).ntok, DefaultChunkSize, DefaultChunkOverlap))
          ELSE 0) + SumOfChunkCounts(Tail(files))

\* C14: after a build that began with an empty store and in which no embedding
\* request failed, the store (and, after save, each backing file) holds as many
\* entries as the chunker makes chunks of the loaded documents together; a
\* document of 1500 tokens gives the chunks [0,600), [500,1100), [1000,1500).
C14_BuildSize ==
    (Built /\ loaded = NoLoad /\ chunkFails = 0) =>
        /\ Len(index) = SumOfChunkCounts(myDocs.files)
        /\ Len(doc_meta) = SumOfChunkCounts(myDocs.files)
        /\ pc = "query" =>
               /\ Len(faissFile.vecs) = SumOfChunkCounts(myDocs.files)
               /\ Len(metaFile.metas) = SumOfChunkCounts(myDocs.files)
        /\ ChunkText(1500, DefaultChunkSize, DefaultChunkOverlap)
               = << [first |-> 0, ntok |-> 600], [first |-> 500, ntok |-> 600],
                    [first |-> 1000, ntok |-> 500] >>

C14_Witness ==
    /\ pc = "query"
    /\ Built
    /\ loaded = NoLoad
    /\ chunkFails = 0
    /\ Len(myDocs.files) = 2
    /\ Len(index) = 3
    /\ doc_meta[1].source = "a.txt"
    /\ doc_meta[3].source = "b.pdf"

\* The call asked the provider for the query's embedding and the request raised.
QueryEmbedFailed == queryLog.embed = "failed"

\* C15 as the specification states it: a failed query embedding gives the
\* caller the fixed message of the missing credential, with no text of the
\* fault in it, and no exception.
C15_QueryEmbedFailsFixedMessage ==
    /\ pc # "raised"
    /\ (pc = "returned" /\ QueryEmbedFailed) =>
           /\ result.kind = "no key"
           /\ "e" \notin DOMAIN result

\* What the code does in the case of C15: a failed query embedding ends the
\* call without a search and without an exception, and the caller gets the
\* handler's message, which carries the text of the provider's fault.
QueryEmbedFailsErrorMessage ==
    /\ pc # "raised"
    /\ QueryEmbedFailed =>
           /\ pc = "returned"
           /\ queryLog.entries > 0
           /\ ~queryLog.searched
           /\ result.kind = "error"
           /\ result.e = "embeddings.create"
           /\ result.hits = <<>>

\* C16: a call that gets a non-empty store while OPENAI_API_KEY is missing
\* returns the "cannot embed" message; it has sent the provider nothing, has
\* not searched, and raises nothing.
C16_NoKeyAtQuery ==
    /\ pc # "raised"
    /\ (pc = "returned" /\ result.kind # "stopped" /\ ~apiKey /\ queryLog.entries > 0) =>
           /\ result.kind = "no key"
           /\ result.hits = <<>>
           /\ queryLog.embed = "none"
           /\ ~queryLog.searched
           /\ chunkEmbeds = 0

C16_Witness ==
    /\ pc = "returned"
    /\ ~apiKey
    /\ queryLog.entries > 0
    /\ result.kind = "no key"

\* C17: a call that finds the store empty and documents in ./my-docs while
\* OPENAI_API_KEY is missing returns the message about the missing credential.
C17_NoKeyAtBuild ==
    (pc = "returned" /\ result.kind # "stopped" /\ loaderRan /\ loaded = NoLoad
        /\ ~YieldsNoDocuments /\ ~apiKey)
    => result.kind = "no key"

\* The steps of a call, from the construction of the store to the return.
CallStep ==
    \/ PostInit
    \/ BuildOrReuse
    \/ EmbedChunkOk
    \/ EmbedChunkFails
    \/ AddEmbeddings
    \/ SaveIndex
    \/ SaveMeta
    \/ Query

Running == pc \in {"construct", "build", "embed", "save", "save_meta", "query"}

\* The one place where the model, not the program, stops a call: the store
\* would grow past MaxEntries.
AtEntryCap ==
    pc = "embed" /\ pending = <<>> /\ Len(index) + Len(all_embeddings) > MaxEntries

\* What search_local_docs can return.
ResultKinds == {"no documents", "no key", "no relevant docs", "ranked", "error"}

\* How far a running call is from its return.
StepsLeft ==
    10 * (CASE pc = "construct" -> 6 [] pc = "build" -> 5 [] pc = "embed" -> 4
            [] pc = "save" -> 3 [] pc = "save_meta" -> 2 [] pc = "query" -> 1
            [] OTHER -> 0)
    + Len(pending)

\* C18: whatever ./my-docs, the backing files (absent, valid, damaged, of
\* different lengths), the credential and the provider do, no exception leaves
\* search_local_docs: a running call can always take a step, every step brings
\* it nearer to its return, and what it returns is one of the result strings.
C18_NoUncaughtFault ==
    /\ [](pc # "raised")
    /\ []((pc = "returned" /\ result.kind # "stopped") => result.kind \in ResultKinds)
    /\ []((Running /\ ~AtEntryCap) => ENABLED CallStep)
    /\ [][CallStep => (StepsLeft' < StepsLeft)]_vars

C18_Witness ==
    /\ pc = "returned"
    /\ result.kind = "error"
    /\ indexPath
    /\ corrupt # {}
    /\ myDocs.exists
    /\ ~apiKey

\* A backing file that cannot be deserialized was there when the call began.
CorruptAtCall == diskAtCall # <<>> /\ diskAtCall[4] # {}

\* The construction of the store fails, nothing is rebuilt, the backing files
\* stay as they were, and the caller is told of the failure.
LoadFailsAndKeepsFiles ==
    /\ pc \in {"construct", "returned"}
    /\ ~loaderRan
    /\ chunkEmbeds = 0
    /\ faissFile = diskAtCall[2]
    /\ metaFile = diskAtCall[3]
    /\ corrupt = diskAtCall[4]
    /\ pc = "returned" => result.kind = "error"

\* C19: a call that begins with a backing file that cannot be deserialized
\* gets no store, empty or otherwise: it reports the failure, rebuilds nothing
\* and leaves the backing files as they are.
C19_CorruptBackingStore == (InCall /\ CorruptAtCall) => LoadFailsAndKeepsFiles

\* The same for calls that begin with a file local_docs.index in place.
CorruptWithIndexPath == (InCall /\ CorruptAtCall /\ diskAtCall[1]) => LoadFailsAndKeepsFiles

\* C20: when __post_init__ finds index_path and _load_index gives a store,
\* both backing files were there and held the same number of entries, which
\* are the entries of the store.
C20_LoadConsistency ==
    (pc = "build" /\ indexPath) =>
        /\ faissFile.exists
        /\ metaFile.exists
        /\ Len(faissFile.vecs) = Len(metaFile.metas)
        /\ loaded.vecs = loaded.metas
        /\ Len(index) = Len(doc_meta)

\* The call is before store.save(): constructing, testing the store, or in
\* the loops over documents and chunks.
BeforeSave == pc \in {"construct", "build", "embed"}

\* The call was stopped before store.save().
StoppedBeforeSave ==
    pc = "returned" /\ result.kind = "stopped"
        /\ result.at \in {"construct", "build", "embed"}

\* C21: until the last chunk-embedding request of a build has returned, the
\* backing files are as they were when the call began, also when the call is
\* stopped there; save() is begun only with every chunk tried, and at most once
\* in a call.
C21_PersistAfterBuild ==
    /\ []((BeforeSave \/ StoppedBeforeSave) => (diskVars = diskAtCall /\ persists = 0))
    /\ [](persists <= 1)
    /\ [][(pc # "idle" /\ diskVars' # diskVars) =>
            /\ pc \in {"save", "save_meta"}
            /\ pending = <<>>
            /\ Len(outcomes) = Len(BuildChunks)]_vars

C21_Witness ==
    /\ StoppedBeforeSave
    /\ result.at = "embed"
    /\ Len(outcomes) = 2
    /\ outcomes[1]
    /\ diskAtCall[2].exists
    /\ Len(diskAtCall[2].vecs) > 0
    /\ faissFile = diskAtCall[2]

\* C22: in one process run a store is constructed or loaded by one call only,
\* and once a call of the run has had a non-empty store, no later step of the
\* run appends to a store or saves one.
C22_StoreLifecycle ==
    /\ [][PostInit => ~run.constructed]_vars
    /\ [][run.nonEmpty =>
            /\ ~(AddEmbeddings /\ all_embeddings # <<>>)
            /\ ~SaveIndex
            /\ ~SaveMeta]_vars

\* The second half alone: no append and no save after a non-empty store.
NoBuildAfterNonEmpty ==
    [][run.nonEmpty =>
        /\ ~(AddEmbeddings /\ all_embeddings # <<>>)
        /\ ~SaveIndex
        /\ ~SaveMeta]_vars

\* C23: search changes neither the vectors of the index nor the metadata list
\* nor the backing files, and a search repeated with the same vector and k on
\* the store an earlier search has left returns what the earlier one returned.
C23_SearchReadOnly ==
    [][SearchApply =>
        /\ index' = index
        /\ doc_meta' = doc_meta
        /\ diskVars' = diskVars
        /\ (pc = "searched" /\ result'.q = result.q /\ result'.k = result.k)
               => result'.hits = result.hits]_vars

C23_Witness ==
    /\ pc = "searched"
    /\ Len(result.hits) = 2
    /\ Len(index) = MaxStore
    /\ faissFile.exists
    /\ faissFile.vecs = index
    /\ metaFile.metas = doc_meta

\* The corpus files whose read succeeds, blank or not.
ReadOkUrls == {"a.txt", "b.pdf", "e.md"}

\* One document per file of files whose name is in urls, in the order of files.
RECURSIVE DocsFrom(_, _)
DocsFrom(files, urls) ==
    IF files = <<>> THEN <<>>
    ELSE (IF Head(files).url \in urls
          THEN <<[raw_content |-> Head(files).ntok, url |-> Head(files).url]>>
          ELSE <<>>) \o DocsFrom(Tail(files), urls)

Paired(vecs, metas) ==
    /\ Len(vecs) = Len(metas)
    /\ \A p \in 1..Len(vecs) : vecs[p] = Embed(metas[p].text_chunk)

\* The pairing in the loop and after add_embeddings.
PairingKept ==
    /\ pc = "embed" => Paired(all_embeddings, all_metas)
    /\ Built => Paired(index, doc_meta)

\* C25: in every state of the build loop the collected embeddings and the
\* collected metadata pair up, and after add_embeddings so do the vectors and
\* the metadata of the store, whichever requests failed and whatever the store
\* held before.
C25_VectorMetaPairing == PairingKept

\* The same for builds on a store that was created, or loaded with as many
\* metadata entries as vectors.
PairingFromConsistentStore == (loaded.vecs = loaded.metas) => PairingKept

\* chunk_text was called with a text of at least one token and an overlap
\* that is not smaller than the chunk size.
OverlapNotSmaller == tokens # <<>> /\ chunk_overlap >= chunk_size

\* C26: chunk_text checks none of its parameters.  Called on a non-empty token
\* stream with chunk_overlap >= chunk_size, it is for ever in its loop with a
\* start offset that is 0 or negative, below len(tokens), and every iteration
\* appends a chunk; a call returns only if the stream is empty or
\* chunk_overlap < chunk_size.
C26_NoGuardNoTermination ==
    /\ [](OverlapNotSmaller => (cpc = "loop" /\ i <= 0 /\ LoopGuard(tokens, i)))
    /\ [][(OverlapNotSmaller /\ ChunkIterateCapped) =>
            (i' <= i /\ Len(chunks') = Len(chunks) + 1)]_vars
    /\ [](cpc = "done" => (tokens = <<>> \/ chunk_overlap < chunk_size))

C26_Witness ==
    /\ OverlapNotSmaller
    /\ chunk_overlap > chunk_size
    /\ Len(chunks) = MaxChunks
    /\ i < 0
    /\ cpc = "loop"

\* How many of the best Min(k, ntotal) vectors have a metadata entry.
InRangeAmongBest(ix, meta, q, k) ==
    Cardinality({ r \in 1..Min(k, Len(ix)) :
                    Ranking(ix, q, 1..Len(ix))[r] <= Len(meta) })

\* C27: on any store, also one with more vectors than metadata entries or
\* fewer vectors than k, search reads no metadata position outside the list:
\* every hit is the entry of a position p the list has, with the score of
\* vector p; the other neighbours are left out, so that the result can be
\* shorter than min(k, ntotal).
C27_SearchInRange ==
    pc = "searched" =>
        /\ \A r \in 1..Len(result.hits) :
            /\ result.hits[r].source # OutOfRange.source
            /\ \E p \in 1..Min(Len(doc_meta), Len(index)) :
                /\ result.hits[r].text = doc_meta[p].text_chunk
                /\ result.hits[r].source = doc_meta[p].source
                /\ result.hits[r].score = Dot(index[p], result.q)
        /\ Len(result.hits) = InRangeAmongBest(index, doc_meta, result.q, result.k)
        /\ Len(result.hits) <= Min(result.k, Len(index))

C27_Witness ==
    /\ pc = "searched"
    /\ Len(index) = 3
    /\ Len(doc_meta) = 1
    /\ result.k = 2
    /\ Len(result.hits) = 0

====
